---- MODULE Spec2Model ----
(***************************************************************************)
(* Route-recording state machine and persistence contract of              *)
(* src/src/components/BoundaryWatersMap.jsx (the BoundaryWatersMap React   *)
(* component).                                                             *)
(*                                                                         *)
(* The four useState hooks are the variables routes, currentRoute,         *)
(* isRecording and selectedRoute; localStorage['boundaryWatersRoutes'] is  *)
(* the variable store.  A user operation is one action: the event handler, *)
(* the re-render React performs for it and the passive effects of that     *)
(* render.  The mount sequence is split in the tasks React schedules       *)
(* separately: first render, mount effects (load effect, then save         *)
(* effect), re-render for the state the load effect set, save effect of    *)
(* that render.  A page reload may fall between any two tasks.             *)
(***************************************************************************)
EXTENDS Integers, Sequences, FiniteSets, TLC

\* ------------------------------------------------------------------ bounds
\* Most waypoints of the in-progress route, queued ones included.
MaxWaypoints == 2
\* Most routes of the saved collection.
MaxRoutes == 2
\* Largest id of an in-progress route.
MaxId == 3

\* ------------------------------------------------------------- input sets
\* Leaflet click positions e.latlng, coordinates in 1/100 degree.
LatLngA == [ lat |-> 4790, lng |-> -9180 ]
LatLngB == [ lat |-> 4791, lng |-> -9181 ]
\* Values typed into the name / description inputs.
InfoValues == { "Trip" }
\* Two of the 16^6 colours Math.random can make getRandomColor return.
ColorA == "#1E90FF"
ColorB == "#FF4500"

\* What varies in one behaviour: the click positions, the colours drawn or
\* the edited fields.  One of the three varies at a time, so that the route
\* data of the saved collection and of the in-progress route do not multiply.
Alphabets ==
  { [ latlngs |-> { LatLngA, LatLngB }, colors |-> { ColorA }, fields |-> {} ],
    [ latlngs |-> { LatLngA }, colors |-> { ColorA, ColorB }, fields |-> {} ],
    [ latlngs |-> { LatLngA }, colors |-> { ColorA },
      fields |-> { "name", "description" } ] }

\* ------------------------------------------------------------------ state
VARIABLES
  routes,         \* useState: the saved collection
  currentRoute,   \* useState: the in-progress route
  isRecording,    \* useState: Recording (TRUE) or Idle (FALSE)
  selectedRoute,  \* useState: <<>> for null, else <<route>>
  store,          \* localStorage['boundaryWatersRoutes']
  pending,        \* setRoutes value queued by the load effect: <<>> or <<v>>
  queue,          \* latlngs of the waypoint updaters queued and not rendered
  pc,             \* "mount", "loaded", "rendered", "ready" or "crashed"
  assigned,       \* history: ids given to in-progress routes since the
                  \* mount, in the order given
  clicks,         \* history: latlngs clicked while Recording since the
                  \* in-progress route was made
  restoring,      \* history: <<rs>> from a reload taken with saved collection
                  \* rs and nothing waiting, until the user acts; else <<>>
  lastOp,         \* history: the step that led here
  alphabet        \* the inputs of this behaviour, one of Alphabets

vars == << routes, currentRoute, isRecording, selectedRoute, store, pending,
           queue, pc, assigned, clicks, restoring, lastOp, alphabet >>

\* getRandomColor(): one of the colours of this behaviour.
getRandomColor == alphabet.colors

\* ------------------------------------------------------------ route store
\* `Route ${id}`
RouteName(id) == "Route " \o ToString(id)

\* useState initial value of currentRoute.
InitialRoute(color) ==
  [ id |-> 1, name |-> RouteName(1), color |-> color,
    description |-> "", waypoints |-> <<>> ]

\* Faulty variant: the id is not incremented.
FreshRouteSameId(cur, color) ==
  [ id |-> cur.id, name |-> RouteName(cur.id), color |-> color,
    description |-> "", waypoints |-> <<>> ]

\* Faulty variant: the new route keeps the waypoints of the saved one.
FreshRouteKeepsWaypoints(cur, color) ==
  [ id |-> cur.id + 1, name |-> RouteName(cur.id + 1), color |-> color,
    description |-> "", waypoints |-> cur.waypoints ]

\* The object handleSaveRoute passes to setCurrentRoute.
FreshRoute(cur, color) ==
  [ id |-> cur.id + 1, name |-> RouteName(cur.id + 1), color |-> color,
    description |-> "", waypoints |-> <<>> ]

\* [latlng.lat, latlng.lng]
Waypoint(latlng) == << latlng.lat, latlng.lng >>

\* Faulty variant: the updater spreads the rendered currentRoute, not prev.
AddWaypointStale(prev, latlng) ==
  [ currentRoute EXCEPT
      !.waypoints = Append(currentRoute.waypoints, Waypoint(latlng)) ]

\* The updater handleAddWaypoint passes to setCurrentRoute.
AddWaypointUpdater(prev, latlng) ==
  [ prev EXCEPT !.waypoints = Append(prev.waypoints, Waypoint(latlng)) ]

\* React applies the queued updaters in order, each to the result of the last.
RECURSIVE ApplyUpdaters(_, _)
ApplyUpdaters(prev, updates) ==
  IF updates = <<>> THEN prev
  ELSE ApplyUpdaters(AddWaypointUpdater(prev, Head(updates)), Tail(updates))

\* prev.filter((route) => route.id !== routeId)
RECURSIVE FilterOut(_, _)
FilterOut(prev, routeId) ==
  IF prev = <<>> THEN <<>>
  ELSE IF Head(prev).id /= routeId
       THEN <<Head(prev)>> \o FilterOut(Tail(prev), routeId)
       ELSE FilterOut(Tail(prev), routeId)

\* The updater handleRouteInfoChange passes to setCurrentRoute: [name]: value.
RouteInfoUpdater(prev, field, value) ==
  IF field = "name" THEN [ prev EXCEPT !.name = value ]
  ELSE [ prev EXCEPT !.description = value ]

\* ------------------------------------------------------------ persistence
\* A localStorage value: kind "absent" is getItem's null; the other kinds are
\* strings: "empty" the empty string, "garbage" text that is not JSON, "null"
\* the JSON text null, "array" the JSON text of an array of route objects,
\* each object written as its values in key order.
Absent == [ kind |-> "absent", items |-> <<>> ]
EmptyText == [ kind |-> "empty", items |-> <<>> ]
GarbageText == [ kind |-> "garbage", items |-> <<>> ]
NullText == [ kind |-> "null", items |-> <<>> ]

\* What the key can hold when the page is first opened.
InitialStores == { Absent, EmptyText, GarbageText, NullText }

\* JSON.stringify of one route object: id, name, color, description, waypoints.
RouteText(r) == << r.id, r.name, r.color, r.description, r.waypoints >>

\* JSON.stringify(routes)
JSONstringify(rs) ==
  [ kind |-> "array", items |-> [ i \in 1..Len(rs) |-> RouteText(rs[i]) ] ]

\* JSON.parse of one object text.
RouteOfText(t) ==
  [ id |-> t[1], name |-> t[2], color |-> t[3],
    description |-> t[4], waypoints |-> t[5] ]

\* JSON.parse throws a SyntaxError on text that is not JSON.
ParseThrows(text) == text.kind \in { "garbage", "empty" }

\* JSON.parse(savedRoutes): a JSON value, kind "array" or "null".
JSONparse(text) ==
  IF text.kind = "array"
  THEN [ kind |-> "array",
         val |-> [ i \in 1..Len(text.items) |-> RouteOfText(text.items[i]) ] ]
  ELSE [ kind |-> "null", val |-> <<>> ]

\* if (savedRoutes): null and the empty string are falsy.
Truthy(text) == text.kind \notin { "absent", "empty" }

\* The state of a fresh mount: the useState initial values.
Mounted(color) ==
  /\ routes' = <<>>
  /\ currentRoute' = InitialRoute(color)
  /\ isRecording' = FALSE
  /\ selectedRoute' = <<>>
  /\ pending' = <<>>
  /\ queue' = <<>>
  /\ pc' = "mount"
  /\ assigned' = << 1 >>
  /\ clicks' = <<>>
  /\ lastOp' = "load"

Init ==
  /\ alphabet \in Alphabets
  /\ routes = <<>>
  /\ currentRoute \in { InitialRoute(c) : c \in getRandomColor }
  /\ isRecording = FALSE
  /\ selectedRoute = <<>>
  /\ store \in InitialStores
  /\ pending = <<>>
  /\ queue = <<>>
  /\ pc = "mount"
  /\ assigned = << 1 >>
  /\ clicks = <<>>
  /\ restoring = <<>>
  /\ lastOp = "load"

\* ------------------------------------------------------------ mount steps
\* Faulty variant: the two effects are declared in the other order; the save
\* effect writes the first render's empty routes before the load effect reads
\* the key.
MountEffectsSaveFirst ==
  /\ pc = "mount"
  /\ store' = JSONstringify(routes)
  /\ pending' = << JSONparse(store') >>
  /\ pc' = "loaded"
  /\ lastOp' = "mountEffects"
  /\ UNCHANGED << routes, currentRoute, isRecording, selectedRoute, queue,
                  assigned, clicks, restoring, alphabet >>

\* The passive effects of the first render, in hook order: the load effect
\* (getItem, JSON.parse, setRoutes), then the save effect with the first
\* render's routes.  An effect that throws ends the component's effect list
\* and React unmounts the tree.
MountEffects ==
  /\ pc = "mount"
  /\ IF Truthy(store) /\ ParseThrows(store)
     THEN /\ pc' = "crashed"
          /\ UNCHANGED << store, pending >>
     ELSE /\ pending' = IF Truthy(store) THEN << JSONparse(store) >> ELSE <<>>
          /\ store' = JSONstringify(routes)
          /\ pc' = IF Truthy(store) THEN "loaded" ELSE "ready"
  /\ lastOp' = "mountEffects"
  /\ UNCHANGED << routes, currentRoute, isRecording, selectedRoute, queue,
                  assigned, clicks, restoring, alphabet >>

\* The render for the setRoutes of the load effect.  routes.map throws when
\* the value is not an array; the render is then not committed.
Rerender ==
  /\ pc = "loaded"
  /\ IF pending[1].kind = "array"
     THEN /\ routes' = pending[1].val
          /\ pc' = "rendered"
     ELSE /\ pc' = "crashed"
          /\ UNCHANGED routes
  /\ pending' = <<>>
  /\ lastOp' = "rerender"
  /\ UNCHANGED << currentRoute, isRecording, selectedRoute, store, queue,
                  assigned, clicks, restoring, alphabet >>

\* The save effect of the render that changed routes.
SaveEffect ==
  /\ pc = "rendered"
  /\ store' = JSONstringify(routes)
  /\ pc' = "ready"
  /\ lastOp' = "saveEffect"
  /\ UNCHANGED << routes, currentRoute, isRecording, selectedRoute, pending,
                  queue, assigned, clicks, restoring, alphabet >>

\* Page reload: the in-memory state is discarded, localStorage is kept.
Reload ==
  /\ \E c \in getRandomColor : Mounted(c)
  /\ restoring' = IF pc = "ready" THEN << routes >> ELSE <<>>
  /\ UNCHANGED << store, alphabet >>

\* -------------------------------------------------------- user operations
\* A React event handler runs on a rendered state with no update waiting:
\* React flushes the queued updates before it dispatches a discrete event.
Settled == pc = "ready" /\ queue = <<>>

\* Faulty variant: the button only starts a recording.
ToggledAlwaysOn(recording) == TRUE

\* !isRecording
Toggled(recording) == ~recording

\* onClick={() => setIsRecording(!isRecording)}
toggleRecording ==
  /\ Settled
  /\ isRecording' = Toggled(isRecording)
  /\ lastOp' = "toggle"
  /\ restoring' = <<>>
  /\ UNCHANGED << routes, currentRoute, selectedRoute, store, pending, queue,
                  pc, assigned, clicks, alphabet >>

\* A Leaflet map click: AddWaypointHandler calls onAddPoint(e.latlng), which
\* is handleAddWaypoint of the last render.  Leaflet events are not React
\* events: the updater is queued and rendered later (Render).
\* Faulty variant: the isRecording test is missing.
ClickAlwaysAccepted(recording) == TRUE

\* if (isRecording)
ClickAccepted(recording) == recording

handleAddWaypoint(latlng) ==
  /\ pc = "ready"
  /\ isRecording => Len(currentRoute.waypoints) + Len(queue) < MaxWaypoints
  /\ queue' = IF ClickAccepted(isRecording) THEN Append(queue, latlng)
               ELSE queue
  /\ clicks' = IF isRecording THEN Append(clicks, latlng) ELSE clicks
  /\ lastOp' = IF isRecording THEN "click" ELSE "clickIgnored"
  /\ restoring' = <<>>
  /\ UNCHANGED << routes, currentRoute, isRecording, selectedRoute, store,
                  pending, pc, assigned, alphabet >>

\* The render that applies the queued waypoint updaters.
Render ==
  /\ pc = "ready"
  /\ queue /= <<>>
  /\ currentRoute' = ApplyUpdaters(currentRoute, queue)
  /\ queue' = <<>>
  /\ lastOp' = IF Len(queue) > 1 THEN "renderBatch" ELSE "render"
  /\ restoring' = <<>>
  /\ UNCHANGED << routes, isRecording, selectedRoute, store, pending, pc,
                  assigned, clicks, alphabet >>

\* Faulty variant: the effect has no [routes] dependency and runs at the
\* mount only.
SaveEffectSkipped(old, rs) == old

\* The save effect of a render whose routes differs from the last render's:
\* localStorage.setItem('boundaryWatersRoutes', JSON.stringify(routes)).
SaveEffectWrites(old, rs) == JSONstringify(rs)

\* Faulty variant: the save replaces a saved route that has the id of the
\* in-progress route instead of adding to the collection.
SaveReplacesSameId(prev, cur) == Append(FilterOut(prev, cur.id), cur)

\* Faulty variant: the new route is put first.
SavePrepends(prev, cur) == << cur >> \o prev

\* The updater handleSaveRoute passes to setRoutes.
SaveUpdater(prev, cur) == Append(prev, cur)

\* Faulty variant: the length test is missing.
SaveNeverRejected(cur) == FALSE

\* Faulty variant: the test is length < 1.
SaveRejectedBelowOne(cur) == Len(cur.waypoints) < 1

\* currentRoute.waypoints.length < 2: alert and return.
SaveRejected(cur) == Len(cur.waypoints) < 2

\* handleSaveRoute, the render it causes and that render's save effect.
handleSaveRoute ==
  /\ Settled
  /\ IF SaveRejected(currentRoute)
     THEN /\ lastOp' = "saveRejected"
          /\ UNCHANGED << routes, currentRoute, isRecording, store, assigned,
                          clicks >>
     ELSE /\ Len(routes) < MaxRoutes
          /\ currentRoute.id < MaxId
          /\ routes' = SaveUpdater(routes, currentRoute)
          /\ \E c \in getRandomColor :
               currentRoute' = FreshRoute(currentRoute, c)
          /\ isRecording' = FALSE
          /\ store' = SaveEffectWrites(store, routes')
          /\ assigned' = Append(assigned, currentRoute'.id)
          /\ clicks' = <<>>
          /\ lastOp' = "save"
  /\ restoring' = <<>>
  /\ UNCHANGED << selectedRoute, pending, queue, pc, alphabet >>

\* Faulty variant: setSelectedRoute(null) is missing.
SelectionKept(selected, routeId) == selected

\* setSelectedRoute(null)
SelectionAfterDelete(selected, routeId) == <<>>

\* The history label of a delete: of an id no saved route has, of the id of
\* the selected route, or of another saved route.
DeleteLabel(routeId) ==
  IF \A i \in 1..Len(routes) : routes[i].id /= routeId THEN "deleteAbsent"
  ELSE IF selectedRoute /= <<>> /\ selectedRoute[1].id = routeId
       THEN "deleteSelected"
       ELSE "delete"

DeleteLabels == { "delete", "deleteSelected", "deleteAbsent" }

\* handleDeleteRoute(routeId), the render it causes and that render's save
\* effect (filter always returns a new array, so the effect runs).
handleDeleteRoute(routeId) ==
  /\ Settled
  /\ routes' = FilterOut(routes, routeId)
  /\ selectedRoute' = SelectionAfterDelete(selectedRoute, routeId)
  /\ store' = SaveEffectWrites(store, routes')
  /\ lastOp' = DeleteLabel(routeId)
  /\ restoring' = <<>>
  /\ UNCHANGED << currentRoute, isRecording, pending, queue, pc, assigned,
                  clicks, alphabet >>

\* handleRouteInfoChange(e) with e.target = { name: field, value }.
handleRouteInfoChange(field, value) ==
  /\ Settled
  /\ currentRoute' = RouteInfoUpdater(currentRoute, field, value)
  /\ lastOp' = "info"
  /\ restoring' = <<>>
  /\ UNCHANGED << routes, isRecording, selectedRoute, store, pending, queue,
                  pc, assigned, clicks, alphabet >>

\* onClick={() => setSelectedRoute(route)} of the list entry, and the click
\* handler of the Polyline, of the i-th saved route.
selectRoute(i) ==
  /\ Settled
  /\ selectedRoute' = << routes[i] >>
  /\ lastOp' = "select"
  /\ restoring' = <<>>
  /\ UNCHANGED << routes, currentRoute, isRecording, store, pending, queue,
                  pc, assigned, clicks, alphabet >>

\* A Leaflet click on the Polyline of the i-th saved route at latlng.  The
\* Polyline's click handler calls setSelectedRoute(route); the Polyline is
\* created with Leaflet's default options (no bubblingMouseEvents: false, no
\* stopPropagation), so the same event is then fired on the map and
\* AddWaypointHandler calls handleAddWaypoint(e.latlng).
polylineClick(i, latlng) ==
  /\ pc = "ready"
  /\ isRecording => Len(currentRoute.waypoints) + Len(queue) < MaxWaypoints
  /\ selectedRoute' = << routes[i] >>
  /\ queue' = IF ClickAccepted(isRecording) THEN Append(queue, latlng)
               ELSE queue
  /\ clicks' = IF isRecording THEN Append(clicks, latlng) ELSE clicks
  /\ lastOp' = "selectLine"
  /\ restoring' = <<>>
  /\ UNCHANGED << routes, currentRoute, isRecording, store, pending, pc,
                  assigned, alphabet >>

Next ==
  \/ MountEffects
  \/ Rerender
  \/ SaveEffect
  \/ Reload
  \/ toggleRecording
  \/ \E latlng \in alphabet.latlngs : handleAddWaypoint(latlng)
  \/ Render
  \/ handleSaveRoute
  \/ \E routeId \in 1..MaxId : handleDeleteRoute(routeId)
  \/ \E field \in alphabet.fields, value \in InfoValues :
       handleRouteInfoChange(field, value)
  \/ \E i \in 1..Len(routes) : selectRoute(i)
  \/ \E i \in 1..Len(routes), latlng \in alphabet.latlngs :
       polylineClick(i, latlng)

Spec == Init /\ [][Next]_vars

\* ------------------------------------------------------------------ claims
\* [lat, lng] of each latlng of a sequence, in order.
Waypoints(latlngs) ==
  [ i \in 1..Len(latlngs) |-> << latlngs[i].lat, latlngs[i].lng >> ]

\* C1: a save invoked while the in-progress route has fewer than 2 waypoints
\* is rejected (the alert) and changes nothing: saved collection, in-progress
\* route, recording state, selection and stored value stay as they were.
C1_RejectedSaveChangesNothing ==
  [][ ( lastOp' \in { "save", "saveRejected" }
        /\ Len(currentRoute.waypoints) < 2 )
      => ( /\ lastOp' = "saveRejected"
           /\ UNCHANGED << routes, currentRoute, isRecording, selectedRoute,
                           store >> ) ]_vars

\* A save was rejected on a route of one waypoint while Recording.
C1_Witness ==
  /\ lastOp = "saveRejected"
  /\ Len(currentRoute.waypoints) = 1
  /\ isRecording

\* C2: every route of the saved collection has at least 2 waypoints.
C2_SavedRoutesHaveTwoWaypoints ==
  \A i \in 1..Len(routes) : Len(routes[i].waypoints) >= 2

\* Two routes are saved, the second by the last step.
C2_Witness ==
  /\ lastOp = "save"
  /\ Len(routes) = 2

\* C3: a save of an in-progress route r of at least 2 waypoints appends r,
\* with all its fields, at the end of the saved collection, makes the
\* in-progress route a new one with id r.id + 1, name "Route {r.id + 1}",
\* empty description and no waypoints, and leaves the state Idle.
C3_SuccessfulSave ==
  [][ ( lastOp' \in { "save", "saveRejected" }
        /\ Len(currentRoute.waypoints) >= 2 )
      => ( /\ routes' = Append(routes, currentRoute)
           /\ currentRoute'.id = currentRoute.id + 1
           /\ currentRoute'.name = "Route " \o ToString(currentRoute.id + 1)
           /\ currentRoute'.description = ""
           /\ currentRoute'.waypoints = <<>>
           /\ isRecording' = FALSE ) ]_vars

\* The scenario: from no saved route, toggle, click (47.90, -91.80), click
\* (47.91, -91.81), save.
C3_Witness ==
  /\ lastOp = "save"
  /\ Len(routes) = 1
  /\ routes[1].id = 1
  /\ routes[1].waypoints = << << 4790, -9180 >>, << 4791, -9181 >> >>
  /\ currentRoute.id = 2
  /\ ~isRecording

\* C4: the waypoints of the in-progress route, once rendered, are the
\* positions clicked while Recording, each once and in click order, also
\* when several clicks were queued before the render; queued and rendered
\* waypoints together are as many as the clicks.
C4_WaypointsAreTheClicks ==
  /\ Len(currentRoute.waypoints) + Len(queue) = Len(clicks)
  /\ queue = <<>> => currentRoute.waypoints = Waypoints(clicks)

\* Two clicks on different positions were rendered together.
C4_Witness ==
  /\ lastOp = "renderBatch"
  /\ clicks = << LatLngB, LatLngA >>
  /\ Len(currentRoute.waypoints) = 2

\* C5: a map click while Idle changes no waypoint sequence (rendered or
\* queued, in-progress or saved), nor the recording state or the stored value.
C5_IdleClickChangesNothing ==
  [][ ( lastOp' \in { "click", "clickIgnored" } /\ ~isRecording )
      => UNCHANGED << routes, currentRoute, queue, isRecording, selectedRoute,
                      store >> ]_vars

\* A click was ignored while a route of one waypoint was in progress and a
\* route was saved.
C5_Witness ==
  /\ lastOp = "clickIgnored"
  /\ Len(currentRoute.waypoints) = 1
  /\ Len(routes) = 1
\* C6: the ids given to in-progress routes since the mount are 1, 2, 3, ...
\* in the order given, and the in-progress route has the last of them: each
\* new id is the previous id + 1, greater than every id given before, also
\* the ids of routes saved and since deleted.
C6_IdsIncreaseWithinSession ==
  /\ \A k \in 1..Len(assigned) : assigned[k] = k
  /\ currentRoute.id = assigned[Len(assigned)]

\* Routes 1 and 2 were saved since the mount, route 1 was deleted, and the
\* in-progress route has id 3.
C6_Witness ==
  /\ assigned = << 1, 2, 3 >>
  /\ currentRoute.id = 3
  /\ Len(routes) = 1
  /\ routes[1].id = 2

\* text is the JSON text of the array rs: one object per route, in order,
\* with the route's id, name, color, description and waypoints.
Serialized(text, rs) ==
  /\ text.kind = "array"
  /\ Len(text.items) = Len(rs)
  /\ \A i \in 1..Len(rs) :
       text.items[i] = << rs[i].id, rs[i].name, rs[i].color,
                          rs[i].description, rs[i].waypoints >>

\* C7: after a successful save or a delete, with its effects run, the stored
\* value is the serialization of the whole saved collection, in order; toggle,
\* click, render, info change, select and rejected save leave it unchanged.
C7_StoreFollowsSavedCollection ==
  [][ /\ lastOp' \in { "save" } \cup DeleteLabels
           => Serialized(store', routes')
      /\ lastOp' \in { "toggle", "click", "clickIgnored", "render",
                       "renderBatch", "info", "select", "saveRejected" }
           => store' = store ]_vars

\* A delete left one of two saved routes, and the stored array has one item.
C7_Witness ==
  /\ lastOp = "delete"
  /\ Len(routes) = 1
  /\ Len(store.items) = 1

\* C8: after a reload taken when the operations before it were complete, the
\* mount does not crash and, once the load is rendered, the saved collection
\* is the saved collection of just before the reload.
C8_ReloadRoundTrip ==
  restoring /= <<>> =>
    /\ pc /= "crashed"
    /\ pc \in { "rendered", "ready" } => routes = restoring[1]

\* A reload restored two saved routes, one of them with an edited description.
C8_Witness ==
  /\ restoring /= <<>>
  /\ pc = "ready"
  /\ Len(routes) = 2
  /\ routes[1].description = "Trip"
  /\ routes[2].description = ""

\* C9: a load never ends crashed, and a load that found the key absent or
\* malformed ends Idle with no saved route and in-progress route 1.
C9_MalformedLoadStartsEmpty ==
  /\ pc /= "crashed"
  /\ ( pc = "ready" /\ lastOp = "mountEffects" )
       => ( routes = <<>> /\ ~isRecording /\ currentRoute.id = 1 )

\* s without its i-th element.
RemoveAt(s, i) == SubSeq(s, 1, i - 1) \o SubSeq(s, i + 1, Len(s))

\* C10: a delete with the id of a saved route removes exactly one route, one
\* with that id, keeps the others in their order, and leaves the in-progress
\* route and the recording state unchanged.
C10_DeleteRemovesExactlyThatRoute ==
  [][ \A routeId \in 1..MaxId :
        ( handleDeleteRoute(routeId)
          /\ \E i \in 1..Len(routes) : routes[i].id = routeId )
        => ( /\ \E i \in 1..Len(routes) :
                  /\ routes[i].id = routeId
                  /\ routes' = RemoveAt(routes, i)
             /\ UNCHANGED << currentRoute, isRecording >> ) ]_vars
\* C11: a delete with the id of the selected route leaves the selection empty.
C11_DeleteClearsSelection ==
  [][ \A routeId \in 1..MaxId :
        ( handleDeleteRoute(routeId)
          /\ selectedRoute /= <<>>
          /\ selectedRoute[1].id = routeId )
        => selectedRoute' = <<>> ]_vars

\* The selected route was deleted, another stays saved, nothing is selected.
C11_Witness ==
  /\ lastOp = "deleteSelected"
  /\ selectedRoute = <<>>
  /\ Len(routes) = 1

\* C12: a delete with an id no saved route has changes nothing: the saved
\* collection, the in-progress route, the recording state and the selection
\* stay as they were.
C12_DeleteAbsentIsNoOp ==
  [][ \A routeId \in 1..MaxId :
        ( handleDeleteRoute(routeId)
          /\ \A i \in 1..Len(routes) : routes[i].id /= routeId )
        => UNCHANGED << routes, currentRoute, isRecording, selectedRoute >>
    ]_vars

\* C13: a toggle flips the recording state and leaves the saved collection,
\* the selection, the in-progress route and the stored value unchanged.
C13_ToggleOnlyFlipsRecording ==
  [][ lastOp' = "toggle"
      => ( /\ isRecording' = ~isRecording
           /\ UNCHANGED << routes, selectedRoute, currentRoute, queue,
                           store >> ) ]_vars

\* A recording with one waypoint and an edited description was stopped, and
\* both are still on the in-progress route.
C13_Witness ==
  /\ lastOp = "toggle"
  /\ ~isRecording
  /\ Len(currentRoute.waypoints) = 1
  /\ currentRoute.description = "Trip"
\* C14: a save invoked right after a successful save is rejected and changes
\* neither the saved collection nor the in-progress route.
C14_SecondSaveRejected ==
  [][ ( lastOp = "save" /\ lastOp' \in { "save", "saveRejected" } )
      => ( /\ lastOp' = "saveRejected"
           /\ UNCHANGED << routes, currentRoute >> ) ]_vars

\* A save was rejected on the fresh route 2, with route 1 saved once.
C14_Witness ==
  /\ lastOp = "saveRejected"
  /\ currentRoute.id = 2
  /\ currentRoute.waypoints = <<>>
  /\ clicks = <<>>
  /\ Len(routes) = 1
  /\ routes[1].id = 1

\* C15: selecting a saved route, by its list entry or by its Polyline, leaves
\* the saved collection, the in-progress route with its rendered and queued
\* waypoints, the recording state and the stored value unchanged.
C15_SelectChangesOnlySelection ==
  [][ lastOp' \in { "select", "selectLine" }
      => UNCHANGED << routes, currentRoute, queue, isRecording, store >>
    ]_vars

\* C16: no two saved routes share an id, and the id of the in-progress route
\* is the id of no saved route.
C16_IdsUnique ==
  /\ \A i, j \in 1..Len(routes) : i /= j => routes[i].id /= routes[j].id
  /\ \A i \in 1..Len(routes) : routes[i].id /= currentRoute.id

\* The labels of the steps of the user operations other than a delete.
KeepingLabels ==
  { "toggle", "click", "clickIgnored", "render", "renderBatch", "info",
    "select", "selectLine", "save", "saveRejected" }

\* C17: a map click, an info edit, a toggle, a selection or a save leaves
\* every saved route in its place with all its fields unchanged (a save only
\* adds behind them); a delete only removes routes and changes no field of
\* the routes it keeps.
C17_SavedRoutesImmutable ==
  [][ /\ lastOp' \in KeepingLabels
         => ( /\ Len(routes') >= Len(routes)
              /\ SubSeq(routes', 1, Len(routes)) = routes )
      /\ lastOp' \in DeleteLabels
         => \A j \in 1..Len(routes') :
              \E i \in 1..Len(routes) : routes[i] = routes'[j] ]_vars

\* The description of in-progress route 2 was edited while route 1 is saved,
\* and the saved route still has its own description.
C17_Witness ==
  /\ lastOp = "info"
  /\ Len(routes) = 1
  /\ routes[1].id = 1
  /\ routes[1].description = ""
  /\ currentRoute.id = 2
  /\ currentRoute.description = "Trip"

\* C18: a step that is not a delete leaves every stored route in the stored
\* value: whenever the key holds an array of routes, it holds an array with
\* each of these routes after a mount step, a reload or any other step but
\* a delete.
C18_StoredRoutesStay ==
  [][ ( store.kind = "array" /\ lastOp' \notin DeleteLabels )
      => ( /\ store'.kind = "array"
           /\ \A i \in 1..Len(store.items) :
                \E j \in 1..Len(store'.items) :
                  store'.items[j] = store.items[i] ) ]_vars

\* C19: the selection is empty or is a saved route with all its field
\* values, and it is empty throughout the mount sequence of a load.
C19_SelectionIsSavedRoute ==
  /\ selectedRoute /= <<>>
       => \E i \in 1..Len(routes) : routes[i] = selectedRoute[1]
  /\ ( pc /= "ready" \/ lastOp \in { "load", "mountEffects", "rerender",
                                      "saveEffect" } )
       => selectedRoute = <<>>

\* The second of two saved routes was selected by its list entry.
C19_Witness ==
  /\ lastOp = "select"
  /\ Len(routes) = 2
  /\ selectedRoute = << routes[2] >>
  /\ routes[1] /= routes[2]
====
